---- MODULE Spec2Model ----
(***************************************************************************)
(* RouteChain route optimisation: the optimize endpoint                    *)
(* (routers/routes.py), the request models (models/route.py), the          *)
(* distance provider (services/distance.py) and the VRP solver             *)
(* (services/vrp_solver.py).                                               *)
(*                                                                         *)
(* Real-valued matrix entries (meters, seconds) are fixed-point numbers:   *)
(* an entry e stands for e / Unit, so int(e) is e \div Unit.               *)
(* total_distance_km is counted in 0.01 km, total_duration_minutes in      *)
(* 0.1 min, as the two round() calls produce them.                         *)
(* An Optional[int] is <<>> (None) or <<v>>.                               *)
(***************************************************************************)
EXTENDS Integers, Sequences, FiniteSets, TLC

\* ------------------------------------------------------------------ bounds
MaxStops == 5
MaxDemand == 2
Unit == 2
DistSeeds == 2
MaxTwoRunStops == 3

\* Delivery points of the stored route that are still to be confirmed.
MaxPending == 1

\* Cap of a driver's total_deliveries counter.
MaxTotalDeliveries == 8

\* ------------------------------------------------------- program constants
DefaultCapacity == 20
DefaultMaxDuration == 480
MinDeliveryPoints == 5
MaxDeliveryPoints == 20
MinPackageCount == 1
MinCapacity == 1
MaxCapacity == 100
MinMaxDuration == 60
MaxMaxDuration == 720
SecondsPerMinute == 60
HTTP_400_BAD_REQUEST == 400
HTTP_403_FORBIDDEN == 403
HTTP_404_NOT_FOUND == 404
HTTP_500_INTERNAL_SERVER_ERROR == 500
HTTP_201_CREATED == 201
TimeLimitSeconds == 30

VARIABLES
    entry,                 \* "direct": solve_vrp called by code; "endpoint": POST /routes/optimize
    request,               \* the caller's values, before any validation
    delivery_points,       \* List[DeliveryPoint] handed to solve_vrp
    distance_matrix,       \* List[List[float]], fixed-point
    duration_matrix,       \* List[List[float]], fixed-point
    vehicle_capacity,      \* solve_vrp argument
    max_duration_minutes,  \* solve_vrp argument
    pc,                    \* position in the handler / solver
    route,                 \* the solver's route: depot, then the stops routed so far
    search_started,        \* routing.SolveWithParameters has been called
    result,                \* RouteOptimizationResult, <<>> until returned
    error,                 \* the exception that ended the run, <<>> if none
    previous,              \* order and objective returned by an earlier run on the same input
    solver,                \* the fields of the module-level VRPSolver object
    other,                 \* a second solve_vrp invocation on the same VRPSolver object
    confirming,            \* confirm_delivery requests in flight: where each one is, what it read
    db_depots,             \* the depots collection, a set of documents
    depot_calls,           \* depot requests in flight: the handler, its arguments, where it is
    depots_created,        \* depot ids generated so far
    db_routes,             \* the routes collection, a set of documents
    db_deliveries,         \* the deliveries collection, the confirmations recorded
    db_drivers,            \* the drivers collection: driver_id -> total_deliveries
    blockchain_enabled,    \* BLOCKCHAIN_ENABLED, fixed when the module is loaded
    blockchain_records,    \* route ids the contract holds a creation record of
    reply                  \* the last HTTP response of a route operation, <<>> if none

solveVars == <<entry, request, delivery_points, distance_matrix, duration_matrix,
               vehicle_capacity, max_duration_minutes, pc, route, search_started,
               result, error>>

flightVars == <<confirming, db_depots, depot_calls, depots_created>>

runVars == <<previous, solver, other, flightVars>>

storeVars == <<db_routes, db_deliveries, db_drivers, blockchain_enabled,
               blockchain_records, reply>>

vars == <<solveVars, runVars, storeVars>>

\* ------------------------------------------------------------ small helpers
Opt(v) == <<v>>
None == <<>>
IsNone(o) == o = <<>>

RECURSIVE SumUpTo(_, _)
SumUpTo(s, k) == IF k = 0 THEN 0 ELSE s[k] + SumUpTo(s, k - 1)

SumSeq(s) == CHOOSE total \in {SumUpTo(f, Len(f)) : f \in {s}} : TRUE

Abs(x) == IF x < 0 THEN -x ELSE x

\* Python's `x or d` on an Optional[int]: None and 0 are both falsy.
OrDefault(o, d) == IF IsNone(o) \/ o[1] = 0 THEN d ELSE o[1]

\* int(x) of a non-negative float.
IntOf(e) == e \div Unit

\* round(v, k): v = num / den in the target unit.  A value that lies exactly
\* half way is decided by its binary representation, so either neighbour.
RoundChoices(num, den) ==
    LET q == num \div den
        r == num % den
    IN  IF 2 * r < den THEN {q}
        ELSE IF 2 * r > den THEN {q + 1}
        ELSE {q, q + 1}

\* ------------------------------------------------------------------ inputs
\* Matrix entry for (i, j), 0-based; asymmetric, with a fractional part on
\* some entries.
DistEntry(seed, i, j) ==
    IF i = j THEN 0
    ELSE 137 * (1 + ((2 * i + 3 * j + seed) % 4)) * Unit + ((i + seed) % 2)

\* kind 0: sub-second legs; kind 1: legs of 10 to 30 s; kind 2: legs of 300
\* to 900 s; some with a fractional part.
DurBase(kind) == IF kind = 0 THEN 0 ELSE IF kind = 1 THEN 10 ELSE 300

DurEntry(kind, i, j) ==
    IF i = j THEN 0
    ELSE DurBase(kind) * (1 + ((i + 2 * j + kind) % 3)) * Unit + ((i + kind) % 2)

DistMatrix(seed, rows, cols) ==
    [i \in 1..rows |-> [j \in 1..cols |-> DistEntry(seed, i - 1, j - 1)]]

DurMatrix(kind, rows, cols) ==
    [i \in 1..rows |-> [j \in 1..cols |-> DurEntry(kind, i - 1, j - 1)]]

\* Shapes <<distance rows, distance cols, duration rows, duration cols>> for
\* N locations: well formed, or one of the four sizes off by one.
Shapes(N) ==
    {<<N, N, N, N>>}
    \cup {<<N + d, N, N, N>> : d \in {-1, 1}}
    \cup {<<N, N + d, N, N>> : d \in {-1, 1}}
    \cup {<<N, N, N + d, N>> : d \in {-1, 1}}
    \cup {<<N, N, N, N + d>> : d \in {-1, 1}}

\* The matrices a caller (or the provider) can hand over for N locations.
MatrixInputs(N) ==
    {[seed |-> s, kind |-> k, shape |-> <<N, N, N, N>>] :
        s \in 0..(DistSeeds - 1), k \in 0..2}
    \cup {[seed |-> 0, kind |-> 1, shape |-> sh] : sh \in Shapes(N)}

CapacityChoices == {0, 4, 20}
DirectDurationChoices == {0, 1, 480}
EndpointDurationChoices == {0, 60}

PackageCounts(n, seed) == [k \in 1..n |-> 1 + ((k + seed) % MaxDemand)]

\* Requests of a direct caller: DeliveryPoint objects (package_count >= 1 by
\* construction), any int for capacity and duration.
DirectRequests ==
    {[package_counts |-> PackageCounts(n, ds),
      vehicle_capacity |-> Opt(c),
      max_duration_minutes |-> Opt(m)] :
        n \in 1..MaxStops, ds \in 0..(MaxDemand - 1),
        c \in CapacityChoices, m \in DirectDurationChoices}

\* Raw JSON bodies of POST /routes/optimize: optional capacity and duration,
\* possibly a stop with package_count 0.
EndpointRequests ==
    {[package_counts |-> [k \in 1..n |->
                            IF k = 1 /\ zero THEN 0 ELSE PackageCounts(n, 0)[k]],
      vehicle_capacity |-> c,
      max_duration_minutes |-> m] :
        n \in 1..MaxStops, zero \in BOOLEAN,
        c \in {None} \cup {Opt(x) : x \in CapacityChoices},
        m \in {None} \cup {Opt(x) : x \in EndpointDurationChoices}}

PointId(k) == "P" \o ToString(k)

NewPoints(counts) ==
    [k \in 1..Len(counts) |->
        [point_id |-> PointId(k), package_count |-> counts[k],
         sequence_number |-> None]]

\* ------------------------------------------------------------------- errors
Err(kind, msg) == <<[kind |-> kind, msg |-> msg]>>

\* VRPSolver.__init__: the fields of the object every request shares.
VRPSolverFields ==
    [time_limit_seconds |-> TimeLimitSeconds,
     first_solution_strategy |-> "PATH_CHEAPEST_ARC",
     local_search_metaheuristic |-> "GUIDED_LOCAL_SEARCH"]

\* A second invocation that has not been called yet.
OtherIdle == [pc |-> "idle", route |-> <<>>, result |-> <<>>]

Drivers == {"DRV_001", "DRV_002"}

\* The process has started: no run has returned, no route is stored.
\* Request slots of the handlers that are followed await by await.
MaxCalls == 2
MaxDepots == 2
Slots == 1..MaxCalls

NoCall == [pc |-> "idle"]

InitFlight ==
    /\ confirming = [c \in Slots |-> NoCall]
    /\ db_depots = {}
    /\ depot_calls = [c \in Slots |-> NoCall]
    /\ depots_created = 0

InitRest ==
    /\ InitFlight
    /\ previous = <<>>
    /\ solver = VRPSolverFields
    /\ other = OtherIdle
    /\ db_routes = {}
    /\ db_deliveries = {}
    /\ db_drivers = [drv \in Drivers |-> 0]
    /\ blockchain_enabled = FALSE
    /\ blockchain_records = {}
    /\ reply = <<>>

Init ==
    /\ InitRest
    /\ entry \in {"direct", "endpoint"}
    /\ request \in (IF entry = "direct" THEN DirectRequests ELSE EndpointRequests)
    /\ delivery_points = <<>>
    /\ distance_matrix = <<>>
    /\ duration_matrix = <<>>
    /\ vehicle_capacity = 0
    /\ max_duration_minutes = 0
    /\ pc = "start"
    /\ route = <<>>
    /\ search_started = FALSE
    /\ result = <<>>
    /\ error = <<>>

Fail(e) ==
    /\ pc' = "done"
    /\ error' = e

\* ------------------------------------------------- models/route.py (pydantic)
\* RouteOptimizationRequest and DeliveryPoint field constraints.
RequestValid(req) ==
    /\ Len(req.package_counts) >= MinDeliveryPoints
    /\ Len(req.package_counts) <= MaxDeliveryPoints
    /\ \A k \in 1..Len(req.package_counts) : req.package_counts[k] >= MinPackageCount
    /\ IsNone(req.vehicle_capacity)
         \/ (req.vehicle_capacity[1] >= MinCapacity /\ req.vehicle_capacity[1] <= MaxCapacity)
    /\ IsNone(req.max_duration_minutes)
         \/ (req.max_duration_minutes[1] >= MinMaxDuration
             /\ req.max_duration_minutes[1] <= MaxMaxDuration)

\* FastAPI parses the body into RouteOptimizationRequest before the handler runs.
ValidateRequest ==
    /\ pc = "start"
    /\ entry = "endpoint"
    /\ IF RequestValid(request)
       THEN /\ pc' = "provider"
            /\ delivery_points' = NewPoints(request.package_counts)
            /\ UNCHANGED error
       ELSE /\ Fail(Err("RequestValidationError", "invalid request body"))
            /\ UNCHANGED delivery_points
    /\ UNCHANGED <<entry, request, distance_matrix, duration_matrix, vehicle_capacity,
                   max_duration_minutes, route, search_started, result>>
    /\ UNCHANGED <<runVars, storeVars>>

\* ------------------------------------------------------ services/distance.py
ProviderFaults == {"auth", "quota", "rate_limit", "api_error", "transport", "missing"}

SizeMismatch == "provider size mismatch"

\* Every failure leaves calculate_distance_matrix as a ValueError; the
\* failures differ in the message text.
ProviderError(f) == Err("ValueError", f)

\* calculate_distance_matrix followed by the call of solve_vrp in
\* create_and_optimize_route.
CallProvider ==
    /\ pc = "provider"
    /\ \/ \E f \in ProviderFaults :
            /\ Fail(ProviderError(f))
            /\ UNCHANGED <<distance_matrix, duration_matrix, vehicle_capacity,
                           max_duration_minutes>>
       \/ \E mi \in MatrixInputs(Len(delivery_points) + 1) :
            IF mi.shape[1] # Len(delivery_points) + 1
            THEN /\ Fail(ProviderError(SizeMismatch))
                 /\ UNCHANGED <<distance_matrix, duration_matrix, vehicle_capacity,
                                max_duration_minutes>>
            ELSE /\ distance_matrix' =
                        DistMatrix(mi.seed, mi.shape[1], mi.shape[2])
                 /\ duration_matrix' =
                        DurMatrix(mi.kind, mi.shape[3], mi.shape[4])
                 /\ vehicle_capacity' = OrDefault(request.vehicle_capacity, DefaultCapacity)
                 /\ max_duration_minutes' =
                        OrDefault(request.max_duration_minutes, DefaultMaxDuration)
                 /\ pc' = "validate"
                 /\ UNCHANGED error
    /\ UNCHANGED <<entry, request, delivery_points, route, search_started, result>>
    /\ UNCHANGED <<runVars, storeVars>>

\* A direct call of vrp_solver.solve_vrp(...).
CallDirect ==
    /\ pc = "start"
    /\ entry = "direct"
    /\ \E mi \in MatrixInputs(Len(request.package_counts) + 1) :
            /\ distance_matrix' =
                   DistMatrix(mi.seed, mi.shape[1], mi.shape[2])
            /\ duration_matrix' =
                   DurMatrix(mi.kind, mi.shape[3], mi.shape[4])
    /\ delivery_points' = NewPoints(request.package_counts)
    /\ vehicle_capacity' = request.vehicle_capacity[1]
    /\ max_duration_minutes' = request.max_duration_minutes[1]
    /\ pc' = "validate"
    /\ UNCHANGED <<entry, request, route, search_started, result, error>>
    /\ UNCHANGED <<runVars, storeVars>>

\* ---------------------------------------------------- services/vrp_solver.py
num_locations == Len(delivery_points) + 1

\* solve_vrp, "Validate inputs".
ValidateInputs ==
    /\ pc = "validate"
    /\ IF Len(distance_matrix) # num_locations
       THEN Fail(Err("ValueError", "distance matrix size"))
       ELSE /\ pc' = "register"
            /\ UNCHANGED error
    /\ UNCHANGED <<entry, request, delivery_points, distance_matrix, duration_matrix,
                   vehicle_capacity, max_duration_minutes, route, search_started, result>>
    /\ UNCHANGED <<runVars, storeVars>>

\* manager.IndexToNode / matrix[from_node][to_node] with 0-based nodes.
HasEntry(m, i, j) == i + 1 <= Len(m) /\ j + 1 <= Len(m[i + 1])
At(m, i, j) == m[i + 1][j + 1]

Nodes == 0..(num_locations - 1)

distance_callback(from_node, to_node) == IntOf(At(distance_matrix, from_node, to_node))

time_callback(from_node, to_node) == IntOf(At(duration_matrix, from_node, to_node))

demand_callback(from_node) ==
    IF from_node = 0 THEN 0 ELSE delivery_points[from_node].package_count

max_duration_seconds == max_duration_minutes * SecondsPerMinute

\* RegisterTransitCallback evaluates the callback for every pair of nodes and
\* caches the values, so an entry missing from a matrix raises there, before
\* SolveWithParameters.  How the exception leaves the native call is not
\* fixed by the wrapper: it propagates or the process aborts.
CallbacksDefined ==
    \A i \in Nodes, j \in Nodes :
        HasEntry(distance_matrix, i, j) /\ HasEntry(duration_matrix, i, j)

RegisterCallbacks ==
    /\ pc = "register"
    /\ IF CallbacksDefined
       THEN /\ pc' = "building"
            /\ route' = <<0>>
            /\ search_started' = TRUE
            /\ UNCHANGED error
       ELSE /\ \E k \in {"IndexError", "Abort"} : Fail(Err(k, "list index out of range"))
            /\ UNCHANGED <<route, search_started>>
    /\ UNCHANGED <<entry, request, delivery_points, distance_matrix, duration_matrix,
                   vehicle_capacity, max_duration_minutes, result>>
    /\ UNCHANGED <<runVars, storeVars>>

\* --------------------------------------------- the routing model's dimensions
\* Cumul of the "Capacity" dimension after the nodes of r.
Load(r) == SumSeq([i \in 1..Len(r) |-> demand_callback(r[i])])

\* Cumul of the "Time" dimension along r, without slack.
TravelTime(r) == SumSeq([i \in 1..(Len(r) - 1) |-> time_callback(r[i], r[i + 1])])

\* Sum of the arc cost evaluator along r.
ArcCost(r) == SumSeq([i \in 1..(Len(r) - 1) |-> distance_callback(r[i], r[i + 1])])

Last(r) == r[Len(r)]

\* The vehicle's path: start at the depot, the stops, end at the depot.
Closed(r) == Append(r, 0)

\* "Capacity": cumul starts at 0, no slack, every cumul <= vehicle_capacity.
\* "Time": transit plus slack >= 0, every cumul <= max_duration_seconds.
\* The demands and transits are >= 0, so the bound at the end is the binding one.
\* Mutant: the capacity dimension is never added to the routing model.
RespectsCapacity_NoDimension(r) == TRUE

RespectsCapacity(r) == Load(r) <= vehicle_capacity
RespectsTime(r) == TravelTime(r) <= max_duration_seconds

RouteFeasible(r) == RespectsCapacity(r) /\ RespectsTime(Closed(r))

\* solution.ObjectiveValue(): the arc costs of the returned route.  The
\* guided-local-search penalties belong to the search, not to the solution.
ObjectiveValue(r) == ArcCost(Closed(r))

RECURSIVE Perms(_)
Perms(S) ==
    IF S = {} THEN {<<>>}
    ELSE UNION {{<<x>> \o p : p \in Perms(S \ {x})} : x \in S}

AllRoutes == [n \in 1..(MaxStops + 1) |-> {<<0>> \o p : p \in Perms(1..n)}]

FeasibleRoutes == {r \in AllRoutes[Len(delivery_points)] : RouteFeasible(r)}

Range(r) == {r[i] : i \in 1..Len(r)}
Unrouted(r) == (Nodes \ {0}) \ Range(r)

\* ------------------------------------ first solution: PATH_CHEAPEST_ARC
Extendable(r) ==
    {k \in Unrouted(r) : RespectsCapacity(Append(r, k)) /\ RespectsTime(Append(r, k))}

CheapestArcs(r) ==
    {k \in Extendable(r) :
        \A k2 \in Extendable(r) :
            distance_callback(Last(r), k) <= distance_callback(Last(r), k2)}

Stuck(r) ==
    \/ Unrouted(r) # {} /\ Extendable(r) = {}
    \/ Unrouted(r) = {} /\ ~RouteFeasible(r)

\* Extend the path from its last node by the cheapest arc to an unrouted stop.
BuildExtend ==
    /\ pc = "building"
    /\ \E k \in CheapestArcs(route) : route' = Append(route, k)
    /\ UNCHANGED <<entry, request, delivery_points, distance_matrix, duration_matrix,
                   vehicle_capacity, max_duration_minutes, pc, search_started, result,
                   error>>
    /\ UNCHANGED <<runVars, storeVars>>

\* All stops routed and the way back fits: the first solution is complete.
BuildClose ==
    /\ pc = "building"
    /\ Unrouted(route) = {}
    /\ RouteFeasible(route)
    /\ pc' = "searching"
    /\ UNCHANGED <<entry, request, delivery_points, distance_matrix, duration_matrix,
                   vehicle_capacity, max_duration_minutes, route, search_started, result,
                   error>>
    /\ UNCHANGED <<runVars, storeVars>>

\* The greedy path is stuck; the solver backtracks to another complete route.
BuildBacktrack ==
    /\ pc = "building"
    /\ Stuck(route)
    /\ \E r \in FeasibleRoutes : route' = r
    /\ pc' = "searching"
    /\ UNCHANGED <<entry, request, delivery_points, distance_matrix, duration_matrix,
                   vehicle_capacity, max_duration_minutes, search_started, result, error>>
    /\ UNCHANGED <<runVars, storeVars>>

\* `if not solution: raise ValueError("No feasible solution found. ...")`
NoSolutionError == Err("ValueError", "no feasible solution")

BuildFail ==
    /\ pc = "building"
    /\ Stuck(route)
    /\ Fail(NoSolutionError)
    /\ UNCHANGED <<entry, request, delivery_points, distance_matrix, duration_matrix,
                   vehicle_capacity, max_duration_minutes, route, search_started, result>>
    /\ UNCHANGED <<runVars, storeVars>>

\* ------------------------------------ improvement: GUIDED_LOCAL_SEARCH
\* The incumbent is replaced by a feasible route of lower cost.
\* Mutant: a cheaper route is taken whether or not the dimensions allow it.
Accepted_Unconstrained(r, cost) == ObjectiveValue(r) < cost

\* A route the search takes as its new best: cheaper, and a solution of the
\* routing model.
Accepted(r, cost) == ObjectiveValue(r) < cost /\ RouteFeasible(r)

Improve ==
    /\ pc = "searching"
    /\ \E cost \in {ObjectiveValue(route)} :
          \E r \in AllRoutes[Len(delivery_points)] :
              /\ Accepted(r, cost)
              /\ route' = r
    /\ UNCHANGED <<entry, request, delivery_points, distance_matrix, duration_matrix,
                   vehicle_capacity, max_duration_minutes, pc, search_started, result,
                   error>>
    /\ UNCHANGED <<runVars, storeVars>>

\* ------------------------------------------------------ _extract_solution
\* The solution is walked by position: routing.Start(0) is position 1,
\* solution.Value(routing.NextVar(index)) the next position, and the
\* vehicle's end node comes after the last stop.
Start == 1
NextVar(index) == index + 1
IsEnd(r, index) == index = Len(r) + 1
IndexToNode(r, index) == IF index <= Len(r) THEN r[index] ELSE 0

_get_point_id(node, points) ==
    IF node = 0 THEN "DEPOT" ELSE points[node].point_id

InitialSegmentOrder == 0
\* Mutant: `segment_order += 1` left out.
NextSegmentOrder_NoIncrement(segment_order) == segment_order

NextSegmentOrder(segment_order) == segment_order + 1

\* Mutant: `=` in place of `+=`.
AddDistance_Overwrite(total_distance_meters, distance_meters) == distance_meters

AddDistance(total_distance_meters, distance_meters) ==
    total_distance_meters + distance_meters

AddDuration(total_duration_seconds, duration_seconds) ==
    total_duration_seconds + duration_seconds

\* RouteSegment(...); duration_minutes is kept as the seconds it is divided from.
MakeSegment(previous_node, node, points, segment_order) ==
    [from_point_id |-> _get_point_id(previous_node, points),
     to_point_id |-> _get_point_id(node, points),
     distance_meters |-> At(distance_matrix, previous_node, node),
     duration_minutes |-> At(duration_matrix, previous_node, node),
     segment_order |-> segment_order]

ExtractInit ==
    [index |-> Start,
     previous_node |-> None,
     segment_order |-> InitialSegmentOrder,
     points |-> delivery_points,
     optimized_sequence |-> <<>>,
     route_segments |-> <<>>,
     total_distance_meters |-> 0,
     total_duration_seconds |-> 0]

\* One iteration of `while not routing.IsEnd(index)`.
ExtractBody(r, st) ==
    LET node == IndexToNode(r, st.index)
        visit == (node # 0 \/ ~IsNone(st.previous_node)) /\ node # 0
        point == [st.points[node] EXCEPT
                     !.sequence_number = Opt(Len(st.optimized_sequence))]
        segment == MakeSegment(st.previous_node[1], node, st.points, st.segment_order)
        has_prev == ~IsNone(st.previous_node)
    IN  [index |-> NextVar(st.index),
         previous_node |-> Opt(node),
         segment_order |->
             IF has_prev THEN NextSegmentOrder(st.segment_order) ELSE st.segment_order,
         points |-> IF visit THEN [st.points EXCEPT ![node] = point] ELSE st.points,
         optimized_sequence |->
             IF visit THEN Append(st.optimized_sequence, point)
             ELSE st.optimized_sequence,
         route_segments |->
             IF has_prev THEN Append(st.route_segments, segment) ELSE st.route_segments,
         total_distance_meters |->
             IF has_prev
             THEN AddDistance(st.total_distance_meters, segment.distance_meters)
             ELSE st.total_distance_meters,
         total_duration_seconds |->
             IF has_prev
             THEN AddDuration(st.total_duration_seconds,
                              At(duration_matrix, st.previous_node[1], node))
             ELSE st.total_duration_seconds]

\* `while not routing.IsEnd(index)`; the loop state s is the value of st.
RECURSIVE ExtractLoop(_, _)
ExtractLoop(r, st) ==
    CHOOSE out \in {IF IsEnd(r, s.index) THEN s ELSE ExtractLoop(r, ExtractBody(r, s)) :
                        s \in {st}} : TRUE

\* round(total_distance_meters / 1000, 2), in 0.01 km.
RoundedKm(total_distance_meters) == RoundChoices(total_distance_meters, 10 * Unit)

\* round(total_duration_seconds / 60, 1), in 0.1 min.
RoundedMinutes(total_duration_seconds) == RoundChoices(total_duration_seconds, 6 * Unit)

SolverStatus(objective_value) == "OPTIMAL"

SolverInfo(r) ==
    CHOOSE info \in {[objective_value |-> objective_value,
                      status |-> SolverStatus(objective_value),
                      num_locations |-> num_locations,
                      strategy |-> "PATH_CHEAPEST_ARC + GUIDED_LOCAL_SEARCH"] :
                         objective_value \in {ObjectiveValue(r)}} : TRUE

\* Mutant: `if not solution` inverted, a found solution raises.
ReturnSolution_Raises ==
    /\ pc = "searching"
    /\ Fail(NoSolutionError)
    /\ UNCHANGED <<entry, request, delivery_points, distance_matrix, duration_matrix,
                   vehicle_capacity, max_duration_minutes, route, search_started, result>>
    /\ UNCHANGED <<runVars, storeVars>>

\* SolveWithParameters returns the incumbent (time limit reached or search
\* exhausted); solve_vrp extracts it, adds solver_info and returns.
ReturnSolution ==
    /\ pc = "searching"
    /\ pc' = "done"
    /\ \E st \in {ExtractLoop(route, ExtractInit)} :
           /\ delivery_points' = st.points
           /\ \E km \in RoundedKm(st.total_distance_meters),
                 mins \in RoundedMinutes(st.total_duration_seconds) :
                  result' = <<[optimized_sequence |-> st.optimized_sequence,
                               route_segments |-> st.route_segments,
                               total_distance_km |-> km,
                               total_duration_minutes |-> mins,
                               solver_info |-> SolverInfo(route)]>>
    /\ UNCHANGED <<entry, request, distance_matrix, duration_matrix, vehicle_capacity,
                   max_duration_minutes, route, search_started, error>>
    /\ UNCHANGED <<runVars, storeVars>>

\* ------------------------------- create_and_optimize_route, the except clauses
\* The response of POST /routes/optimize to an exception e: a body the
\* request model rejects is answered by the framework (422) before the
\* handler runs; `except ValueError` answers 400, `except Exception` 500.
ExceptionStatus(e) ==
    IF e.kind = "RequestValidationError" THEN 422
    ELSE IF e.kind = "ValueError" THEN HTTP_400_BAD_REQUEST
    ELSE HTTP_500_INTERNAL_SERVER_ERROR

\* --------------------------------------------- a second run on the same input
\* What a caller compares between two runs: the visiting order and the
\* objective value.
Outcome(res) ==
    [order |-> [i \in 1..Len(res.optimized_sequence) |->
                    res.optimized_sequence[i].point_id],
     objective_value |-> res.solver_info.objective_value]

\* vrp_solver.solve_vrp(...) is called again with the arguments of the run
\* that has just returned; the module-level solver object serves every call.
Rerun ==
    /\ pc = "done"
    /\ result # <<>>
    /\ previous = <<>>
    /\ previous' = <<Outcome(result[1])>>
    /\ pc' = "validate"
    /\ route' = <<>>
    /\ search_started' = FALSE
    /\ result' = <<>>
    /\ UNCHANGED <<entry, request, delivery_points, distance_matrix, duration_matrix,
                   vehicle_capacity, max_duration_minutes, error>>
    /\ UNCHANGED <<solver, other, flightVars, storeVars>>

\* ------------------------------- a second invocation on the same VRPSolver
\* vrp_solver.solve_vrp(...) called by another request with a problem of its
\* own.  Everything solve_vrp builds (manager, routing, the callbacks, the
\* search parameters, the solution) is a local of the call; of the object
\* it reads the three fields set by __init__.
OtherPoints == NewPoints(<<1, 1>>)
OtherDistance == DistMatrix(0, Len(OtherPoints) + 1, Len(OtherPoints) + 1)

OtherCost(r) ==
    SumSeq([i \in 1..Len(r) |->
               IntOf(At(OtherDistance, r[i], Closed(r)[i + 1]))])

OtherRoutes == AllRoutes[Len(OtherPoints)]

\* The PATH_CHEAPEST_ARC route of the other problem.
RECURSIVE OtherGreedy(_)
OtherGreedy(r) ==
    IF Len(r) = Len(OtherPoints) + 1 THEN r
    ELSE LET rest == (1..Len(OtherPoints)) \ Range(r)
             k == CHOOSE x \in rest :
                     \A y \in rest :
                         IntOf(At(OtherDistance, Last(r), x))
                             <= IntOf(At(OtherDistance, Last(r), y))
         IN  OtherGreedy(Append(r, k))

OtherOutcome(r) ==
    [order |-> [i \in 1..Len(OtherPoints) |-> OtherPoints[r[i + 1]].point_id],
     objective_value |-> OtherCost(r)]

\* Mutant: solve_vrp tunes self.time_limit_seconds to the size of its problem.
OtherCall_TunesSolver ==
    /\ other.pc = "idle"
    /\ solver.first_solution_strategy = "PATH_CHEAPEST_ARC"
    /\ other' = [other EXCEPT !.pc = "searching", !.route = OtherGreedy(<<0>>)]
    /\ solver' = [solver EXCEPT !.time_limit_seconds = Len(OtherPoints)]
    /\ UNCHANGED <<solveVars, previous, flightVars, storeVars>>

\* The other call builds its model and its first solution.
OtherCall ==
    /\ other.pc = "idle"
    /\ solver.first_solution_strategy = "PATH_CHEAPEST_ARC"
    /\ other' = [other EXCEPT !.pc = "searching", !.route = OtherGreedy(<<0>>)]
    /\ UNCHANGED <<solveVars, previous, solver, flightVars, storeVars>>

OtherImprove ==
    /\ other.pc = "searching"
    /\ solver.local_search_metaheuristic = "GUIDED_LOCAL_SEARCH"
    /\ \E r \in OtherRoutes :
          /\ OtherCost(r) < OtherCost(other.route)
          /\ other' = [other EXCEPT !.route = r]
    /\ UNCHANGED <<solveVars, previous, solver, flightVars, storeVars>>

OtherReturn ==
    /\ other.pc = "searching"
    /\ solver.time_limit_seconds > 0
    /\ other' = [other EXCEPT !.pc = "done", !.result = <<OtherOutcome(other.route)>>]
    /\ UNCHANGED <<solveVars, previous, solver, flightVars, storeVars>>

\* ================================================= routers/routes.py, the store
\* models/route.py: RouteStatus and DeliveryStatus values.
DRAFT == "draft"
OPTIMIZED == "optimized"
ASSIGNED == "assigned"
IN_PROGRESS == "in_progress"
COMPLETED == "completed"
CANCELLED == "cancelled"
RouteStatus == {DRAFT, OPTIMIZED, ASSIGNED, IN_PROGRESS, COMPLETED, CANCELLED}

PENDING == "pending"
DELIVERED == "delivered"
FAILED == "failed"

\* datetime.utcnow(): the model keeps whether a timestamp is set.
utcnow == Opt("utcnow")

\* generate_route_id() of the one route the store holds.
RouteId == "ROUTE_1"

\* point.dict() of the k-th delivery point of the stored route.
PointDict(k, point_status) ==
    [point_id |-> PointId(k),
     customer_name |-> "customer " \o ToString(k),
     address |-> "street " \o ToString(k),
     location |-> k,
     status |-> point_status,
     delivered_at |-> IF point_status = PENDING THEN None ELSE utcnow,
     proof_of_delivery |-> IF point_status = PENDING THEN None ELSE Opt("photo")]

\* route_dict of create_and_optimize_route, Step 6.
RouteDict(driver_id) ==
    [route_id |-> RouteId,
     route_name |-> "route",
     depot_location |-> 0,
     delivery_points |-> [k \in 1..MinDeliveryPoints |-> PointDict(k, PENDING)],
     driver_id |-> driver_id,
     status |-> OPTIMIZED,
     actual_start_time |-> None,
     completed_at |-> None,
     blockchain_tx_hash |-> None,
     blockchain_completion_tx |-> None,
     data_hash |-> None]

\* ------------------------------------------------------ services/blockchain.py
\* Mutant: the status of each delivery point is hashed too.
calculate_data_hash_WithStatus(data) ==
    [route_id |-> data.route_id,
     route_name |-> data.route_name,
     depot_location |-> data.depot_location,
     delivery_points |->
         [k \in 1..Len(data.delivery_points) |->
             [customer_name |-> data.delivery_points[k].customer_name,
              address |-> data.delivery_points[k].address,
              location |-> data.delivery_points[k].location,
              point_id |-> data.delivery_points[k].point_id,
              status |-> data.delivery_points[k].status]]]

\* calculate_data_hash: SHA-256 of the JSON text of immutable_data; the
\* digest is represented by the data it is computed from.
calculate_data_hash(data) ==
    [route_id |-> data.route_id,
     route_name |-> data.route_name,
     depot_location |-> data.depot_location,
     delivery_points |->
         [k \in 1..Len(data.delivery_points) |->
             [customer_name |-> data.delivery_points[k].customer_name,
              address |-> data.delivery_points[k].address,
              location |-> data.delivery_points[k].location,
              point_id |-> data.delivery_points[k].point_id]]]

\* record_route_creation and the update_one of Step 8: the transaction hash
\* and the data hash are written to the stored route.
RecordedOnBlockchain(route_dict) ==
    [route_dict EXCEPT !.blockchain_tx_hash = Opt("tx"),
                       !.data_hash = Opt(calculate_data_hash(route_dict))]

\* verify_route: False when the service is not available or the document
\* has no stored hash, else the comparison of the two hashes.
verify_route(route_data) ==
    IF ~blockchain_enabled THEN FALSE
    ELSE IF IsNone(route_data.data_hash) THEN FALSE
    ELSE route_data.data_hash[1] = calculate_data_hash(route_data)

\* ------------------------------------------------- routers/routes.py, handlers
\* db.routes.find_one({"route_id": route_id}): the matching documents.
find_one(route_id) == {doc \in db_routes : doc.route_id = route_id}

\* db.routes.update_one({"route_id": ...}, {"$set": ...}) with the document
\* the $set produces.
update_one(stored, updated) == db_routes' = (db_routes \ {stored}) \cup {updated}

\* The response: the handler that answered, who asked, the status code, the
\* routes whose data is in the body, and `verified` of verify-blockchain.
Respond(handler, current_driver, status_code, routes, verified) ==
    reply' = <<[handler |-> handler, driver |-> current_driver,
                status_code |-> status_code, routes |-> routes,
                verified |-> verified, detail |-> None]>>

\* HTTPException(status_code, detail) raised before anything is written.
Refuse(handler, current_driver, status_code, detail) ==
    /\ reply' = <<[handler |-> handler, driver |-> current_driver,
                   status_code |-> status_code, routes |-> {},
                   verified |-> None, detail |-> Opt(detail)]>>
    /\ UNCHANGED <<db_routes, db_deliveries, db_drivers>>

\* Answer 200 with data of the route, nothing written.
Read(handler, current_driver, routes) ==
    /\ Respond(handler, current_driver, 200, routes, None)
    /\ UNCHANGED <<db_routes, db_deliveries, db_drivers>>

RequestedRouteIds == {RouteId}

\* GET /routes/: the driver_id query parameter, when given, replaces the
\* caller's own id in the query.
list_routes ==
    /\ \E current_driver \in Drivers,
          driver_id \in {None} \cup {Opt(x) : x \in Drivers},
          status_filter \in {None, Opt(COMPLETED)} :
            LET wanted == IF IsNone(driver_id) THEN current_driver ELSE driver_id[1]
                routes == {doc \in db_routes :
                              /\ doc.driver_id = wanted
                              /\ IsNone(status_filter) \/ doc.status = status_filter[1]}
            IN  Read("list_routes", current_driver, {doc.route_id : doc \in routes})
    /\ UNCHANGED <<solveVars, runVars, blockchain_enabled, blockchain_records>>

\* GET /routes/{route_id}
get_route_details ==
    /\ \E current_driver \in Drivers, route_id \in RequestedRouteIds :
          IF find_one(route_id) = {}
          THEN Refuse("get_route_details", current_driver, HTTP_404_NOT_FOUND,
                      "Route not found")
          ELSE \E stored \in find_one(route_id) :
                  IF stored.driver_id # current_driver
                  THEN Refuse("get_route_details", current_driver, HTTP_403_FORBIDDEN,
                              "Access denied to this route")
                  ELSE Read("get_route_details", current_driver, {route_id})
    /\ UNCHANGED <<solveVars, runVars, blockchain_enabled, blockchain_records>>

\* PATCH /routes/{route_id}/status: any RouteStatus is accepted as new_status.
update_route_status ==
    /\ \E current_driver \in Drivers, route_id \in RequestedRouteIds,
          new_status \in RouteStatus :
          IF find_one(route_id) = {}
          THEN Refuse("update_route_status", current_driver, HTTP_404_NOT_FOUND,
                      "Route not found")
          ELSE \E stored \in find_one(route_id) :
                  IF stored.driver_id # current_driver
                  THEN Refuse("update_route_status", current_driver, HTTP_403_FORBIDDEN,
                              "Access denied to this route")
                  ELSE /\ update_one(stored,
                              [stored EXCEPT
                                  !.status = new_status,
                                  !.actual_start_time =
                                      IF new_status = IN_PROGRESS /\ IsNone(@)
                                      THEN utcnow ELSE @,
                                  !.completed_at =
                                      IF new_status = COMPLETED /\ IsNone(@)
                                      THEN utcnow ELSE @])
                       /\ Respond("update_route_status", current_driver, 200, {route_id}, None)
                       /\ UNCHANGED <<db_deliveries, db_drivers>>
    /\ UNCHANGED <<solveVars, runVars, blockchain_enabled, blockchain_records>>

\* Points a confirmation may name: the pending ones, one that is already
\* delivered, and one the route does not have.
ConfirmedPointIds == {PointId(k) : k \in 1..(MaxPending + 1)} \cup {"P_unknown"}

\* The loop of confirm_delivery that looks the point up: the first index
\* whose point_id matches, 0 when there is none (point_found False).
PointIndex(points, point_id) ==
    IF \E i \in 1..Len(points) : points[i].point_id = point_id
    THEN CHOOSE i \in 1..Len(points) :
            /\ points[i].point_id = point_id
            /\ \A j \in 1..(i - 1) : points[j].point_id # point_id
    ELSE 0

\* Mutant: a failed delivery is not counted as processed.
all_delivered_NoFailed(points) ==
    \A i \in 1..Len(points) : points[i].status = DELIVERED

all_delivered(points) ==
    \A i \in 1..Len(points) : points[i].status \in {DELIVERED, FAILED}

\* The check made on the point before it is updated, without the check.
AlreadyConfirmed_Never(point) == FALSE

\* current_status == DeliveryStatus.DELIVERED.value
AlreadyConfirmed(point) == point.status = DELIVERED

\* POST /routes/{route_id}/confirm-delivery.  The notes and the failure
\* reason are written next to the status and the proof they come with.
ConfirmDelivery(current_driver, route_id, confirmation) ==
    IF confirmation.route_id # route_id
    THEN Refuse("confirm_delivery", current_driver, HTTP_400_BAD_REQUEST,
                "Route ID in confirmation doesn't match URL")
    ELSE IF find_one(route_id) = {}
    THEN Refuse("confirm_delivery", current_driver, HTTP_404_NOT_FOUND,
                "Route not found")
    ELSE \E stored \in find_one(route_id) :
           \E point_index \in {PointIndex(stored.delivery_points, confirmation.point_id)} :
            IF stored.driver_id # current_driver
            THEN Refuse("confirm_delivery", current_driver, HTTP_403_FORBIDDEN,
                        "Access denied to this route")
            ELSE IF point_index = 0
            THEN Refuse("confirm_delivery", current_driver, HTTP_404_NOT_FOUND,
                        "Delivery point not found in route")
            ELSE IF AlreadyConfirmed(stored.delivery_points[point_index])
            THEN Refuse("confirm_delivery", current_driver, HTTP_400_BAD_REQUEST,
                        "This delivery has already been confirmed")
            ELSE LET new_status == IF confirmation.success THEN DELIVERED ELSE FAILED
                     updated_points ==
                         [stored.delivery_points EXCEPT
                             ![point_index].status = new_status,
                             ![point_index].delivered_at = utcnow,
                             ![point_index].proof_of_delivery = confirmation.proof_photo]
                     completes == /\ all_delivered(updated_points)
                                  /\ stored.status # COMPLETED
                 IN  /\ update_one(stored,
                            [stored EXCEPT
                                !.delivery_points = updated_points,
                                !.status = IF completes THEN COMPLETED ELSE @,
                                !.completed_at = IF completes THEN utcnow ELSE @])
                     /\ db_deliveries' = db_deliveries \cup
                            {[route_id |-> route_id,
                              point_id |-> confirmation.point_id,
                              driver_id |-> current_driver,
                              success |-> confirmation.success]}
                     /\ Respond("confirm_delivery", current_driver, 200, {route_id}, None)
                     /\ UNCHANGED db_drivers

DeliveryConfirmations ==
    [route_id : RequestedRouteIds \cup {"ROUTE_other"},
     point_id : ConfirmedPointIds,
     proof_photo : {Opt("photo")},
     success : BOOLEAN]

confirm_delivery ==
    /\ \E current_driver \in Drivers, route_id \in RequestedRouteIds,
          confirmation \in DeliveryConfirmations :
            ConfirmDelivery(current_driver, route_id, confirmation)
    /\ UNCHANGED <<solveVars, runVars, blockchain_enabled, blockchain_records>>

successful_deliveries(points) ==
    Cardinality({i \in 1..Len(points) : points[i].status = DELIVERED})

\* POST /routes/{route_id}/complete.  blockchain_service.update_route_status
\* returns a receipt or None, whichever the chain gives.
complete_route ==
    /\ \E current_driver \in Drivers, route_id \in RequestedRouteIds,
          blockchain_result \in {None, Opt("tx_completed")} :
          IF find_one(route_id) = {}
          THEN Refuse("complete_route", current_driver, HTTP_404_NOT_FOUND,
                      "Route not found")
          ELSE \E stored \in find_one(route_id) :
                  IF stored.driver_id # current_driver
                  THEN Refuse("complete_route", current_driver, HTTP_403_FORBIDDEN,
                              "Access denied to this route")
                  ELSE IF stored.status = COMPLETED
                  THEN Refuse("complete_route", current_driver, HTTP_400_BAD_REQUEST,
                              "Route is already completed")
                  ELSE /\ db_drivers[current_driver]
                            + successful_deliveries(stored.delivery_points)
                              <= MaxTotalDeliveries
                       /\ update_one(stored,
                              [stored EXCEPT
                                  !.status = COMPLETED,
                                  !.completed_at = utcnow,
                                  !.blockchain_completion_tx =
                                      IF /\ blockchain_enabled
                                         /\ ~IsNone(stored.blockchain_tx_hash)
                                         /\ ~IsNone(blockchain_result)
                                      THEN blockchain_result ELSE @])
                       /\ db_drivers' =
                              [db_drivers EXCEPT ![current_driver] =
                                  @ + successful_deliveries(stored.delivery_points)]
                       /\ Respond("complete_route", current_driver, 200, {route_id}, None)
                       /\ UNCHANGED db_deliveries
    /\ UNCHANGED <<solveVars, runVars, blockchain_enabled, blockchain_records>>

\* DELETE /routes/{route_id}
delete_route ==
    /\ \E current_driver \in Drivers, route_id \in RequestedRouteIds :
          IF find_one(route_id) = {}
          THEN Refuse("delete_route", current_driver, HTTP_404_NOT_FOUND,
                      "Route not found")
          ELSE \E stored \in find_one(route_id) :
                  IF stored.driver_id # current_driver
                  THEN Refuse("delete_route", current_driver, HTTP_403_FORBIDDEN,
                              "Access denied to this route")
                  ELSE IF stored.status \notin {DRAFT, OPTIMIZED}
                  THEN Refuse("delete_route", current_driver, HTTP_400_BAD_REQUEST,
                              "Cannot delete route")
                  ELSE /\ db_routes' = db_routes \ {stored}
                       /\ Respond("delete_route", current_driver, 200, {}, None)
                       /\ UNCHANGED <<db_deliveries, db_drivers>>
    /\ UNCHANGED <<solveVars, runVars, blockchain_enabled, blockchain_records>>

\* The lookup and the access check the two exports share.
ExportRoute(handler, current_driver, route_id) ==
    IF find_one(route_id) = {}
    THEN Refuse(handler, current_driver, HTTP_404_NOT_FOUND,
                "Route not found")
    ELSE \E stored \in find_one(route_id) :
            IF stored.driver_id # current_driver
            THEN Refuse(handler, current_driver, HTTP_403_FORBIDDEN,
                        "Access denied to this route")
            ELSE Read(handler, current_driver, {route_id})

\* GET /routes/{route_id}/export/csv
export_route_csv ==
    /\ \E current_driver \in Drivers, route_id \in RequestedRouteIds :
          ExportRoute("export_route_csv", current_driver, route_id)
    /\ UNCHANGED <<solveVars, runVars, blockchain_enabled, blockchain_records>>

\* GET /routes/{route_id}/export/pdf
export_route_pdf ==
    /\ \E current_driver \in Drivers, route_id \in RequestedRouteIds :
          ExportRoute("export_route_pdf", current_driver, route_id)
    /\ UNCHANGED <<solveVars, runVars, blockchain_enabled, blockchain_records>>

\* GET /routes/{route_id}/verify-blockchain: the route's driver_id is not
\* looked at.  For a recorded route the body carries the blockchain record,
\* the current data hash and the transaction hash.
verify_route_blockchain ==
    /\ \E current_driver \in Drivers, route_id \in RequestedRouteIds :
          IF find_one(route_id) = {}
          THEN Refuse("verify_route_blockchain", current_driver, HTTP_404_NOT_FOUND,
                      "Route not found")
          ELSE \E stored \in find_one(route_id) :
                  /\ IF ~blockchain_enabled \/ IsNone(stored.blockchain_tx_hash)
                     THEN Respond("verify_route_blockchain", current_driver, 200, {}, Opt(FALSE))
                     ELSE Respond("verify_route_blockchain", current_driver, 200, {route_id},
                                  Opt(verify_route(stored)))
                  /\ UNCHANGED <<db_routes, db_deliveries, db_drivers>>
    /\ UNCHANGED <<solveVars, runVars, blockchain_enabled, blockchain_records>>

\* --------------------------- routers/routes.py, create_and_optimize_route
\* route_dict of Step 6 for the result solve_vrp returned: the delivery
\* points are stored in the optimized order.
OptimizedRouteDict(driver_id, optimization_result) ==
    [RouteDict(driver_id) EXCEPT
        !.delivery_points =
            [i \in 1..Len(optimization_result.optimized_sequence) |->
                PointDict(CHOOSE k \in 1..Len(delivery_points) :
                              delivery_points[k].point_id
                                  = optimization_result.optimized_sequence[i].point_id,
                          PENDING)]]

\* Mutant: the route document is inserted as soon as the handler has its
\* points, whatever follows.
SaveRoute_BeforeSolving ==
    /\ entry = "endpoint"
    /\ pc = "provider"
    /\ db_routes = {}
    /\ \E current_driver \in Drivers :
          db_routes' = {[RouteDict(current_driver) EXCEPT !.status = DRAFT]}
    /\ UNCHANGED <<solveVars, runVars, db_deliveries, db_drivers, blockchain_enabled,
                   blockchain_records, reply>>

\* Steps 6 to 9: insert_one, then record_route_creation when the blockchain
\* is enabled (a receipt, or None when the transaction fails), then 201.
SaveRoute ==
    /\ entry = "endpoint"
    /\ pc = "done"
    /\ result # <<>>
    /\ reply = <<>>
    /\ \E current_driver \in Drivers,
          blockchain_result \in (IF blockchain_enabled THEN {None, Opt("tx")} ELSE {None}) :
          \E route_dict \in {OptimizedRouteDict(current_driver, result[1])} :
            /\ db_routes' = db_routes \cup
                  {IF IsNone(blockchain_result) THEN route_dict
                   ELSE RecordedOnBlockchain(route_dict)}
            /\ blockchain_records' =
                  IF IsNone(blockchain_result) THEN blockchain_records
                  ELSE blockchain_records \cup {route_dict.route_id}
            /\ Respond("create_and_optimize_route", current_driver, 201,
                       {route_dict.route_id}, None)
    /\ UNCHANGED <<solveVars, runVars, db_deliveries, db_drivers, blockchain_enabled>>

\* `except ValueError` -> 400, `except Exception` -> 500; a body FastAPI
\* rejects is answered 422 before the handler runs.
RaiseHTTPException ==
    /\ entry = "endpoint"
    /\ pc = "done"
    /\ error # <<>>
    /\ error[1].kind # "Abort"
    /\ reply = <<>>
    /\ \E current_driver \in Drivers :
          Refuse("create_and_optimize_route", current_driver,
                 ExceptionStatus(error[1]), error[1].msg)
    /\ UNCHANGED <<solveVars, runVars, blockchain_enabled, blockchain_records>>

\* ------------------- confirm_delivery, one await after the other
\* The response a request in flight ends with.
Answer(status_code, detail) == [status_code |-> status_code, detail |-> detail]

\* Up to `route = await db.routes.find_one(...)`: the route-id check, then
\* the document as it is read now.
ConfirmFind(c) ==
    /\ confirming[c].pc = "idle"
    /\ \E current_driver \in Drivers, route_id \in RequestedRouteIds,
          confirmation \in DeliveryConfirmations :
          confirming' = [confirming EXCEPT ![c] =
              IF confirmation.route_id # route_id
              THEN [pc |-> "done", current_driver |-> current_driver,
                    confirmation |-> confirmation,
                    response |-> Answer(HTTP_400_BAD_REQUEST,
                                        "Route ID in confirmation doesn't match URL")]
              ELSE [pc |-> "found", current_driver |-> current_driver,
                    route_id |-> route_id, confirmation |-> confirmation,
                    route |-> IF find_one(route_id) = {} THEN None
                              ELSE Opt(CHOOSE doc \in find_one(route_id) : TRUE)]]
    /\ UNCHANGED <<solveVars, previous, solver, other, db_depots, depot_calls,
                   depots_created, storeVars>>

\* From the document read to `await db.routes.update_one(...)`: the checks
\* and the new list are computed from what was read; the $set replaces
\* delivery_points (and status, completed_at) of the document stored now.
ConfirmUpdate(c) ==
    /\ confirming[c].pc = "found"
    /\ LET call == confirming[c]
           Ends(status_code, detail) ==
               /\ confirming' = [confirming EXCEPT ![c] =
                      [pc |-> "done", current_driver |-> call.current_driver,
                       confirmation |-> call.confirmation,
                       response |-> Answer(status_code, detail)]]
               /\ UNCHANGED db_routes
       IN  IF IsNone(call.route)
           THEN Ends(HTTP_404_NOT_FOUND, "Route not found")
           ELSE \E stored \in {call.route[1]} :
                 \E point_index \in {PointIndex(stored.delivery_points,
                                                call.confirmation.point_id)} :
                  IF stored.driver_id # call.current_driver
                  THEN Ends(HTTP_403_FORBIDDEN, "Access denied to this route")
                  ELSE IF point_index = 0
                  THEN Ends(HTTP_404_NOT_FOUND, "Delivery point not found in route")
                  ELSE IF AlreadyConfirmed(stored.delivery_points[point_index])
                  THEN Ends(HTTP_400_BAD_REQUEST, "This delivery has already been confirmed")
                  ELSE IF find_one(call.route_id) = {}
                  THEN Ends(HTTP_500_INTERNAL_SERVER_ERROR,
                            "Failed to update delivery confirmation")
                  ELSE LET updated_points ==
                               [stored.delivery_points EXCEPT
                                   ![point_index].status =
                                       IF call.confirmation.success
                                       THEN DELIVERED ELSE FAILED,
                                   ![point_index].delivered_at = utcnow,
                                   ![point_index].proof_of_delivery =
                                       call.confirmation.proof_photo]
                           completes == /\ all_delivered(updated_points)
                                        /\ stored.status # COMPLETED
                       IN  /\ \E current \in find_one(call.route_id) :
                                 update_one(current,
                                     [current EXCEPT
                                         !.delivery_points = updated_points,
                                         !.status = IF completes THEN COMPLETED ELSE @,
                                         !.completed_at = IF completes THEN utcnow ELSE @])
                           /\ confirming' = [confirming EXCEPT ![c].pc = "updated"]
    /\ UNCHANGED <<solveVars, previous, solver, other, db_depots, depot_calls,
                   depots_created, db_deliveries, db_drivers, blockchain_enabled,
                   blockchain_records, reply>>

\* `await db.deliveries.insert_one(confirmation_record)` and the 200.
ConfirmInsert(c) ==
    /\ confirming[c].pc = "updated"
    /\ db_deliveries' = db_deliveries \cup
          {[route_id |-> confirming[c].route_id,
            point_id |-> confirming[c].confirmation.point_id,
            driver_id |-> confirming[c].current_driver,
            success |-> confirming[c].confirmation.success]}
    /\ confirming' = [confirming EXCEPT ![c] =
          [pc |-> "done", current_driver |-> confirming[c].current_driver,
           confirmation |-> confirming[c].confirmation,
           response |-> Answer(200, "Delivery confirmed successfully")]]
    /\ UNCHANGED <<solveVars, previous, solver, other, db_depots, depot_calls,
                   depots_created, db_routes, db_drivers, blockchain_enabled,
                   blockchain_records, reply>>

\* ------------------------------ routers/depots.py, one await after the other
\* The driver whose depot requests are followed; every filter of the handlers
\* that selects several documents carries this driver's driver_id.
DepotDrivers == {"DRV_001"}

\* A depot document, reduced to the fields the handlers filter on or set.
DepotDict(depot_id, driver_id, is_default) ==
    [depot_id |-> depot_id, driver_id |-> driver_id, is_default |-> is_default]

\* generate_depot_id(): a fresh id for every call.
generate_depot_id == depots_created + 1

RequestedDepotIds == 1..MaxDepots

\* db.depots.update_many(filter, {"$set": {"is_default": False}})
update_many_unset(matched) ==
    db_depots' = {IF doc \in matched THEN [doc EXCEPT !.is_default = FALSE] ELSE doc :
                     doc \in db_depots}

\* db.depots.update_one({"depot_id": depot_id}, {"$set": {"is_default": v}})
update_one_default(depot_id, is_default) ==
    db_depots' = {IF doc.depot_id = depot_id THEN [doc EXCEPT !.is_default = is_default]
                  ELSE doc : doc \in db_depots}

nonDepotVars == <<solveVars, previous, solver, other, confirming, db_routes,
                  db_deliveries, db_drivers, blockchain_enabled, blockchain_records>>

DepotRespond(handler, current_driver, status_code) ==
    reply' = <<[handler |-> handler, driver |-> current_driver,
                status_code |-> status_code, routes |-> {}, verified |-> None,
                detail |-> None]>>

\* The call of slot c goes on to its next await.
DepotGoto(c, next_pc) ==
    /\ depot_calls' = [depot_calls EXCEPT ![c].pc = next_pc]
    /\ UNCHANGED reply

\* The call of slot c returns or raises.
DepotReturn(c, handler, status_code) ==
    /\ DepotRespond(handler, depot_calls[c].current_driver, status_code)
    /\ depot_calls' = [depot_calls EXCEPT ![c] = NoCall]

\* POST /depots, up to its first await: with is_default the update_many that
\* unsets the driver's defaults, otherwise the insert_one itself.
create_depot(c) ==
    /\ depot_calls[c].pc = "idle"
    /\ depots_created < MaxDepots
    /\ depots_created' = depots_created + 1
    /\ \E current_driver \in DepotDrivers, is_default \in BOOLEAN :
          IF is_default
          THEN /\ update_many_unset({doc \in db_depots :
                                     /\ doc.driver_id = current_driver
                                     /\ doc.is_default})
               /\ depot_calls' = [depot_calls EXCEPT ![c] =
                      [pc |-> "create_insert", current_driver |-> current_driver,
                       depot_id |-> generate_depot_id, is_default |-> TRUE]]
               /\ UNCHANGED reply
          ELSE /\ db_depots' = db_depots \cup
                      {DepotDict(generate_depot_id, current_driver, FALSE)}
               /\ DepotRespond("create_depot", current_driver, HTTP_201_CREATED)
               /\ UNCHANGED depot_calls
    /\ UNCHANGED nonDepotVars

\* `await db.depots.insert_one(depot_dict)` of a depot created as default.
create_depot_insert(c) ==
    /\ depot_calls[c].pc = "create_insert"
    /\ db_depots' = db_depots \cup
          {DepotDict(depot_calls[c].depot_id, depot_calls[c].current_driver,
                     depot_calls[c].is_default)}
    /\ DepotReturn(c, "create_depot", HTTP_201_CREATED)
    /\ UNCHANGED <<nonDepotVars, depots_created>>

\* PUT /depots/{depot_id}: the find_one and what follows it without an await.
\* Of update_data only is_default is kept; an update_data with no field set
\* gives an empty update_dict.
update_depot(c) ==
    /\ depot_calls[c].pc = "idle"
    /\ \E current_driver \in DepotDrivers, depot_id \in RequestedDepotIds,
          is_default \in {None, Opt(TRUE), Opt(FALSE)} :
          IF ~\E doc \in db_depots : /\ doc.depot_id = depot_id
                                     /\ doc.driver_id = current_driver
          THEN /\ DepotRespond("update_depot", current_driver, HTTP_404_NOT_FOUND)
               /\ UNCHANGED depot_calls
          ELSE IF IsNone(is_default)
          THEN /\ DepotRespond("update_depot", current_driver, HTTP_400_BAD_REQUEST)
               /\ UNCHANGED depot_calls
          ELSE /\ depot_calls' = [depot_calls EXCEPT ![c] =
                      [pc |-> IF is_default[1] THEN "update_unset" ELSE "update_set",
                       current_driver |-> current_driver, depot_id |-> depot_id,
                       is_default |-> is_default[1]]]
               /\ UNCHANGED reply
    /\ UNCHANGED <<nonDepotVars, db_depots, depots_created>>

\* update_many on {driver_id, is_default: True, depot_id: {"$ne": depot_id}}
update_depot_unset(c) ==
    /\ depot_calls[c].pc = "update_unset"
    /\ update_many_unset({doc \in db_depots :
                            /\ doc.driver_id = depot_calls[c].current_driver
                            /\ doc.is_default
                            /\ doc.depot_id # depot_calls[c].depot_id})
    /\ DepotGoto(c, "update_set")
    /\ UNCHANGED <<nonDepotVars, depots_created>>

\* update_one({"depot_id": depot_id}, {"$set": update_dict})
update_depot_set(c) ==
    /\ depot_calls[c].pc = "update_set"
    /\ update_one_default(depot_calls[c].depot_id, depot_calls[c].is_default)
    /\ DepotGoto(c, "update_read")
    /\ UNCHANGED <<nonDepotVars, depots_created>>

\* `updated = await db.depots.find_one(...)`; `"_id" in updated` raises on None.
update_depot_read(c) ==
    /\ depot_calls[c].pc = "update_read"
    /\ DepotReturn(c, "update_depot",
          IF \E doc \in db_depots : doc.depot_id = depot_calls[c].depot_id
          THEN 200 ELSE HTTP_500_INTERNAL_SERVER_ERROR)
    /\ UNCHANGED <<nonDepotVars, db_depots, depots_created>>

\* DELETE /depots/{depot_id}: one delete_one.
delete_depot ==
    /\ \E current_driver \in DepotDrivers, depot_id \in RequestedDepotIds :
          LET deleted == {doc \in db_depots : /\ doc.depot_id = depot_id
                                              /\ doc.driver_id = current_driver}
          IN  /\ db_depots' = db_depots \ deleted
              /\ DepotRespond("delete_depot", current_driver,
                    IF deleted = {} THEN HTTP_404_NOT_FOUND ELSE 200)
    /\ UNCHANGED <<nonDepotVars, depot_calls, depots_created>>

\* POST /depots/{depot_id}/set-default: the find_one.
set_default_depot(c) ==
    /\ depot_calls[c].pc = "idle"
    /\ \E current_driver \in DepotDrivers, depot_id \in RequestedDepotIds :
          IF ~\E doc \in db_depots : /\ doc.depot_id = depot_id
                                     /\ doc.driver_id = current_driver
          THEN /\ DepotRespond("set_default_depot", current_driver, HTTP_404_NOT_FOUND)
               /\ UNCHANGED depot_calls
          ELSE /\ depot_calls' = [depot_calls EXCEPT ![c] =
                      [pc |-> "default_unset", current_driver |-> current_driver,
                       depot_id |-> depot_id, is_default |-> TRUE]]
               /\ UNCHANGED reply
    /\ UNCHANGED <<nonDepotVars, db_depots, depots_created>>

\* update_many({"driver_id": ...}, {"$set": {"is_default": False}})
set_default_depot_unset(c) ==
    /\ depot_calls[c].pc = "default_unset"
    /\ update_many_unset({doc \in db_depots :
                            doc.driver_id = depot_calls[c].current_driver})
    /\ DepotGoto(c, "default_set")
    /\ UNCHANGED <<nonDepotVars, depots_created>>

\* update_one({"depot_id": depot_id}, {"$set": {"is_default": True, ...}})
set_default_depot_set(c) ==
    /\ depot_calls[c].pc = "default_set"
    /\ update_one_default(depot_calls[c].depot_id, TRUE)
    /\ DepotGoto(c, "default_read")
    /\ UNCHANGED <<nonDepotVars, depots_created>>

\* `updated = await db.depots.find_one({"depot_id": depot_id})` and the answer.
set_default_depot_read(c) ==
    /\ depot_calls[c].pc = "default_read"
    /\ DepotReturn(c, "set_default_depot",
          IF \E doc \in db_depots : doc.depot_id = depot_calls[c].depot_id
          THEN 200 ELSE HTTP_500_INTERNAL_SERVER_ERROR)
    /\ UNCHANGED <<nonDepotVars, db_depots, depots_created>>

Next ==
    \/ ValidateRequest
    \/ CallProvider
    \/ CallDirect
    \/ ValidateInputs
    \/ RegisterCallbacks
    \/ BuildExtend
    \/ BuildClose
    \/ BuildBacktrack
    \/ BuildFail
    \/ Improve
    \/ ReturnSolution

Spec == Init /\ [][Next]_vars

\* search_parameters.time_limit.seconds = self.time_limit_seconds: the
\* search cannot go on for ever, SolveWithParameters returns.
FairSpec == Spec /\ WF_vars(ReturnSolution)

\* Direct callers of solve_vrp with small problems, for the specifications
\* that hold two invocations.
InitDirect ==
    /\ Init
    /\ entry = "direct"
    /\ Len(request.package_counts) <= MaxTwoRunStops

RerunNext ==
    \/ CallDirect
    \/ ValidateInputs
    \/ RegisterCallbacks
    \/ BuildExtend
    \/ BuildClose
    \/ BuildBacktrack
    \/ BuildFail
    \/ Improve
    \/ ReturnSolution
    \/ Rerun

RerunSpec == InitDirect /\ [][RerunNext]_vars

SharedNext ==
    \/ CallDirect
    \/ ValidateInputs
    \/ RegisterCallbacks
    \/ BuildExtend
    \/ BuildClose
    \/ BuildBacktrack
    \/ BuildFail
    \/ Improve
    \/ ReturnSolution
    \/ OtherCall
    \/ OtherImprove
    \/ OtherReturn

SharedSpec == InitDirect /\ [][SharedNext]_vars

\* The route store after a successful optimize: one route of RouteOwner,
\* recorded on the blockchain or not, started, with the points beyond
\* MaxPending already confirmed as delivered.
RouteOwner == "DRV_001"

StartedRouteWith(route_dict, pending) ==
    [route_dict EXCEPT
        !.status = IN_PROGRESS,
        !.actual_start_time = utcnow,
        !.delivery_points =
            [k \in 1..Len(@) |-> IF k > pending THEN PointDict(k, DELIVERED) ELSE @[k]]]

StartedRoute(route_dict) == StartedRouteWith(route_dict, MaxPending)

InitRoutes ==
    /\ entry = "endpoint"
    /\ request = <<>>
    /\ delivery_points = <<>>
    /\ distance_matrix = <<>>
    /\ duration_matrix = <<>>
    /\ vehicle_capacity = 0
    /\ max_duration_minutes = 0
    /\ pc = "done"
    /\ route = <<>>
    /\ search_started = FALSE
    /\ result = <<>>
    /\ error = <<>>
    /\ previous = <<>>
    /\ solver = VRPSolverFields
    /\ other = OtherIdle
    /\ InitFlight
    /\ blockchain_enabled \in BOOLEAN
    /\ \E recorded \in (IF blockchain_enabled THEN BOOLEAN ELSE {FALSE}) :
          /\ db_routes = {StartedRoute(IF recorded
                                       THEN RecordedOnBlockchain(RouteDict(RouteOwner))
                                       ELSE RouteDict(RouteOwner))}
          /\ blockchain_records = IF recorded THEN {RouteId} ELSE {}
    /\ db_deliveries = {[route_id |-> RouteId, point_id |-> PointId(k),
                         driver_id |-> RouteOwner, success |-> TRUE] :
                            k \in (MaxPending + 1)..MinDeliveryPoints}
    /\ db_drivers = [drv \in Drivers |-> 0]
    /\ reply = <<>>

\* solve_vrp called directly or through POST /routes/optimize, up to the
\* response, with the blockchain service available or not.
InitOptimize ==
    /\ entry \in {"direct", "endpoint"}
    /\ request \in (IF entry = "direct" THEN DirectRequests ELSE EndpointRequests)
    /\ delivery_points = <<>>
    /\ distance_matrix = <<>>
    /\ duration_matrix = <<>>
    /\ vehicle_capacity = 0
    /\ max_duration_minutes = 0
    /\ pc = "start"
    /\ route = <<>>
    /\ search_started = FALSE
    /\ result = <<>>
    /\ error = <<>>
    /\ previous = <<>>
    /\ solver = VRPSolverFields
    /\ other = OtherIdle
    /\ InitFlight
    /\ db_routes = {}
    /\ db_deliveries = {}
    /\ db_drivers = [drv \in Drivers |-> 0]
    /\ blockchain_enabled \in BOOLEAN
    /\ blockchain_records = {}
    /\ reply = <<>>

OptimizeNext ==
    \/ ValidateRequest
    \/ CallProvider
    \/ CallDirect
    \/ ValidateInputs
    \/ RegisterCallbacks
    \/ BuildExtend
    \/ BuildClose
    \/ BuildBacktrack
    \/ BuildFail
    \/ Improve
    \/ ReturnSolution
    \/ SaveRoute
    \/ RaiseHTTPException

OptimizeSpec == InitOptimize /\ [][OptimizeNext]_vars

\* Two confirm_delivery requests on a started route whose first
\* MaxPending + 1 points are pending.
InitConfirming ==
    /\ entry = "endpoint"
    /\ request = <<>>
    /\ delivery_points = <<>>
    /\ distance_matrix = <<>>
    /\ duration_matrix = <<>>
    /\ vehicle_capacity = 0
    /\ max_duration_minutes = 0
    /\ pc = "done"
    /\ route = <<>>
    /\ search_started = FALSE
    /\ result = <<>>
    /\ error = <<>>
    /\ previous = <<>>
    /\ solver = VRPSolverFields
    /\ other = OtherIdle
    /\ InitFlight
    /\ blockchain_enabled = FALSE
    /\ blockchain_records = {}
    /\ db_routes = {StartedRouteWith(RouteDict(RouteOwner), MaxPending + 1)}
    /\ db_deliveries = {[route_id |-> RouteId, point_id |-> PointId(k),
                         driver_id |-> RouteOwner, success |-> TRUE] :
                            k \in (MaxPending + 2)..MinDeliveryPoints}
    /\ db_drivers = [drv \in Drivers |-> 0]
    /\ reply = <<>>

ConfirmNext ==
    \E c \in Slots :
        \/ ConfirmFind(c)
        \/ ConfirmUpdate(c)
        \/ ConfirmInsert(c)

ConfirmSpec == InitConfirming /\ [][ConfirmNext]_vars

\* The depot handlers of one deployment, no depot stored yet.
InitDepots ==
    /\ entry = "endpoint"
    /\ request = <<>>
    /\ delivery_points = <<>>
    /\ distance_matrix = <<>>
    /\ duration_matrix = <<>>
    /\ vehicle_capacity = 0
    /\ max_duration_minutes = 0
    /\ pc = "done"
    /\ route = <<>>
    /\ search_started = FALSE
    /\ result = <<>>
    /\ error = <<>>
    /\ previous = <<>>
    /\ solver = VRPSolverFields
    /\ other = OtherIdle
    /\ InitFlight
    /\ blockchain_enabled = FALSE
    /\ blockchain_records = {}
    /\ db_routes = {}
    /\ db_deliveries = {}
    /\ db_drivers = [drv \in Drivers |-> 0]
    /\ reply = <<>>

DepotNext ==
    \/ delete_depot
    \/ \E c \in Slots :
          \/ create_depot(c)
          \/ create_depot_insert(c)
          \/ update_depot(c)
          \/ update_depot_unset(c)
          \/ update_depot_set(c)
          \/ update_depot_read(c)
          \/ set_default_depot(c)
          \/ set_default_depot_unset(c)
          \/ set_default_depot_set(c)
          \/ set_default_depot_read(c)

DepotSpec == InitDepots /\ [][DepotNext]_vars

RouteNext ==
    \/ list_routes
    \/ get_route_details
    \/ update_route_status
    \/ confirm_delivery
    \/ complete_route
    \/ delete_route
    \/ export_route_csv
    \/ export_route_pdf
    \/ verify_route_blockchain

RouteSpec == InitRoutes /\ [][RouteNext]_vars

\* ===================================================================== claims
Returned == pc = "done" /\ result # <<>>
Res == result[1]
Segments == Res.route_segments
Sequence == Res.optimized_sequence
NumStops == Len(delivery_points)

NodeOf(point_id) == CHOOSE k \in 1..NumStops : delivery_points[k].point_id = point_id

\* The returned visiting order as nodes: depot, the stops of
\* optimized_sequence, depot.
ReturnedPath == <<0>> \o [i \in 1..Len(Sequence) |-> NodeOf(Sequence[i].point_id)] \o <<0>>

IsPermutationOfStops ==
    /\ Len(Sequence) = NumStops
    /\ \A k \in 1..NumStops :
          Cardinality({i \in 1..Len(Sequence) : Sequence[i].point_id = PointId(k)}) = 1

Square(m) == Len(m) = NumStops + 1 /\ \A i \in 1..Len(m) : Len(m[i]) = NumStops + 1

\* A well-formed problem: square matrices of the node count, positive
\* demands, capacity and duration limit.
ValidProblem ==
    /\ Square(distance_matrix)
    /\ Square(duration_matrix)
    /\ \A k \in 1..NumStops : delivery_points[k].package_count >= 1
    /\ vehicle_capacity >= 1
    /\ max_duration_minutes >= 1

RealSum(m, path) ==
    SumSeq([i \in 1..(Len(path) - 1) |-> At(m, path[i], path[i + 1])])

Prefix(path, k) == SubSeq(path, 1, k)

SegmentDistanceSum == SumSeq([i \in 1..Len(Segments) |-> Segments[i].distance_meters])
SegmentDurationSum == SumSeq([i \in 1..Len(Segments) |-> Segments[i].duration_minutes])

\* C1: the returned route is a permutation of all stop ids (each delivery
\* point exactly once in optimized_sequence) and it starts at the depot and
\* ends at the depot.
C1_DepotToDepotPermutation ==
    (Returned /\ ValidProblem) =>
        /\ IsPermutationOfStops
        /\ Segments # <<>>
        /\ Segments[1].from_point_id = "DEPOT"
        /\ Segments[Len(Segments)].to_point_id = "DEPOT"

\* The part of C1 that the code does satisfy: no duplicates, no omissions,
\* and the first leg leaves the depot.
C1_PermutationFromDepot ==
    Returned =>
        /\ IsPermutationOfStops
        /\ Segments # <<>>
        /\ Segments[1].from_point_id = "DEPOT"

\* C2: at every position of the returned route (depot, each stop, return to
\* depot) the cumulative load is <= vehicle_capacity and the cumulative
\* travel duration, summed from the duration_matrix entries, is
\* <= max_duration_minutes * 60 (stated for the well-formed problems).
C2_ResourceTrace ==
    (Returned /\ ValidProblem) =>
        \A k \in 1..Len(ReturnedPath) :
            /\ SumSeq([i \in 1..k |->
                    IF ReturnedPath[i] = 0 THEN 0
                    ELSE delivery_points[ReturnedPath[i]].package_count])
                 <= vehicle_capacity
            /\ RealSum(duration_matrix, Prefix(ReturnedPath, k))
                 <= max_duration_minutes * SecondsPerMinute * Unit

\* C3: one segment per consecutive pair of route positions including the
\* final leg back to the depot: n + 1 segments, the first from DEPOT, the
\* last to DEPOT, each segment starting where the previous one ended and
\* carrying the matrix entries of its pair (stated for the well-formed
\* problems).
C3_SegmentPerLeg ==
    (Returned /\ ValidProblem) =>
        /\ Len(Segments) = NumStops + 1
        /\ Segments[1].from_point_id = "DEPOT"
        /\ Segments[Len(Segments)].to_point_id = "DEPOT"
        /\ \A k \in 1..(Len(Segments) - 1) :
              Segments[k].to_point_id = Segments[k + 1].from_point_id
        /\ \A k \in 1..Len(Segments) :
              k + 1 <= Len(ReturnedPath) =>
                /\ Segments[k].distance_meters =
                      At(distance_matrix, ReturnedPath[k], ReturnedPath[k + 1])
                /\ Segments[k].duration_minutes =
                      At(duration_matrix, ReturnedPath[k], ReturnedPath[k + 1])

\* C4: the k-th segment (zero-based) of every returned result has
\* segment_order = k.
C4_SegmentOrder ==
    Returned => \A k \in 1..Len(Segments) : Segments[k].segment_order = k - 1

C4_Witness == Returned /\ Len(Segments) >= 3

\* C5: total_distance_km is within 0.01 km of the sum of the segments'
\* distance_meters / 1000, and total_duration_minutes is the sum of the
\* segments' durations in minutes rounded to one decimal.
C5_Totals ==
    Returned =>
        /\ Abs(Res.total_distance_km * 10 * Unit - SegmentDistanceSum) <= 10 * Unit
        /\ 2 * Abs(Res.total_duration_minutes * 6 * Unit - SegmentDurationSum) <= 6 * Unit

C5_Witness ==
    /\ Returned
    /\ Len(Segments) >= 2
    /\ SegmentDistanceSum % (10 * Unit) # 0
    /\ SegmentDurationSum % (6 * Unit) # 0

\* C6: objective_value is the unpenalized travel cost of the returned route,
\* the sum of distance_matrix[i][j] over depot -> stops -> depot, and agrees
\* with the distance total reported for the route (stated for the
\* well-formed problems).
C6_ObjectiveIsTrueCost ==
    (Returned /\ ValidProblem) =>
        /\ Res.solver_info.objective_value * Unit = RealSum(distance_matrix, ReturnedPath)
        /\ Abs(Res.solver_info.objective_value * Unit - Res.total_distance_km * 10 * Unit)
             <= 10 * Unit

TotalDemand == SumSeq([k \in 1..NumStops |-> delivery_points[k].package_count])

WholeSecondSum(path) ==
    SumSeq([i \in 1..(Len(path) - 1) |->
                At(duration_matrix, path[i], path[i + 1]) \div Unit])

\* No single-vehicle tour fits: the stops' demand exceeds the capacity, or
\* every order of the stops takes longer (in whole seconds per leg) than the
\* duration limit.
NoTourFits ==
    \/ TotalDemand > vehicle_capacity
    \/ \A r \in AllRoutes[NumStops] :
          WholeSecondSum(Append(r, 0)) > max_duration_minutes * SecondsPerMinute

C8_MalformedMatrixRejected ==
    (distance_matrix # <<>> /\ ~(Square(distance_matrix) /\ Square(duration_matrix))) =>
        /\ ~search_started
        /\ pc = "done" => (result = <<>> /\ error # <<>>)

InvalidRequest ==
    \/ \E k \in 1..Len(request.package_counts) : request.package_counts[k] <= 0
    \/ ~IsNone(request.vehicle_capacity) /\ request.vehicle_capacity[1] <= 0
    \/ ~IsNone(request.max_duration_minutes) /\ request.max_duration_minutes[1] <= 0

\* C9: a request with a stop of demand <= 0, capacity <= 0 or max duration
\* <= 0 fails with a validation error and the search is never started,
\* whichever way the engine is invoked.
C9_InvalidInputRejected ==
    InvalidRequest =>
        /\ ~search_started
        /\ pc = "done" =>
              /\ result = <<>>
              /\ error # <<>>
              /\ error[1].kind \in {"ValidationError", "RequestValidationError", "ValueError"}

\* C10: the run goes through building, then searching; a failed construction
\* is the only way a started search ends without a solution, and once the
\* search phase is reached the run terminates with a result and no error.
C10_SearchAlwaysReturns ==
    /\ [][pc = "building" => pc' \in {"building", "searching", "done"}]_vars
    /\ [][pc = "searching" => (pc' \in {"searching", "done"} /\ error' = <<>>)]_vars
    /\ [][(pc = "building" /\ pc' = "done") => (result' = <<>> /\ error' # <<>>)]_vars
    /\ (pc = "searching") ~> (pc = "done" /\ result # <<>> /\ error = <<>>)

C10_Witness ==
    /\ Returned
    /\ error = <<>>
    /\ search_started
    /\ NumStops >= 2
    /\ route # [i \in 1..(NumStops + 1) |-> i - 1]
ImprovingRouteLeft ==
    \E cost \in {ObjectiveValue(route)} :
        \E r \in AllRoutes[Len(delivery_points)] :
            ObjectiveValue(r) < cost /\ RouteFeasible(r)

\* C12: solver_info.status of every returned result is the termination
\* reason of the search, time_limit or converged, whichever ended it.
C12_TerminationReason ==
    (Returned /\ ValidProblem) =>
        Res.solver_info.status =
            (IF ImprovingRouteLeft THEN "time_limit" ELSE "converged")

InSolveVrp == pc \in {"validate", "register", "building", "searching"}

\* C13: from the call of solve_vrp to its return or its error, the problem
\* input (the delivery points and their fields, both matrices, capacity and
\* max duration) is not changed.
C13_InputUnchanged ==
    [][(InSolveVrp /\ ValidProblem) =>
           UNCHANGED <<delivery_points, distance_matrix, duration_matrix,
                       vehicle_capacity, max_duration_minutes>>]_vars

\* What the other invocation returns when it runs alone.
OtherAloneOutcomes ==
    {OtherOutcome(r) :
        r \in {OtherGreedy(<<0>>)}
              \cup {x \in OtherRoutes : OtherCost(x) < OtherCost(OtherGreedy(<<0>>))}}

\* The result of the first invocation is the extraction of its own route
\* on its own problem.
OwnResult ==
    /\ Outcome(Res).objective_value = ObjectiveValue(route)
    /\ Outcome(Res).order =
           [i \in 1..NumStops |-> delivery_points[route[i + 1]].point_id]
    /\ \A i \in 1..Len(Segments) :
           Segments[i].distance_meters = At(distance_matrix, route[i], route[i + 1])

\* C14: two invocations on independent problems interleave through the
\* shared solver object; the fields of the object never change, no step of
\* one invocation changes the state of the other, and each returns a
\* result of its own problem, as it does alone.
C14_NoSharedState ==
    /\ [][solver' = solver]_vars
    /\ [][other' # other => UNCHANGED solveVars]_vars
    /\ [][solveVars' # solveVars => other' = other]_vars
    /\ [](other.pc = "done" => other.result[1] \in OtherAloneOutcomes)
    /\ [](Returned => OwnResult)

C14_Witness == Returned /\ other.pc = "searching" /\ other.route # OtherGreedy(<<0>>)

\* The four kinds of provider failure the caller has to tell apart;
\* any other HTTP error of the provider is none of them.
FailureClass(f) ==
    IF f = "auth" THEN "authentication"
    ELSE IF f \in {"quota", "rate_limit"} THEN "quota"
    ELSE IF f = "transport" THEN "transport"
    ELSE IF f \in {"missing", SizeMismatch} THEN "malformed"
    ELSE "other"

ProviderFailed ==
    /\ entry = "endpoint"
    /\ pc = "done"
    /\ error # <<>>
    /\ error[1].msg \in ProviderFaults \cup {SizeMismatch}

\* C15: an authentication, a quota/rate-limit, a transport and a
\* malformed-response failure of the provider reach the caller as errors
\* of four kinds: the kind of the error raised differs from the kind of the
\* error of every failure of another class.
C15_DistinctErrorKinds ==
    ProviderFailed =>
        \A g \in ProviderFaults \cup {SizeMismatch} :
            (/\ FailureClass(g) # "other"
             /\ FailureClass(error[1].msg) # "other"
             /\ FailureClass(g) # FailureClass(error[1].msg))
                => ProviderError(g)[1].kind # error[1].kind

\* C16: when calculate_distance_matrix has returned for N locations, both
\* matrices have N rows of N entries.
C16_ProviderMatricesSquare ==
    (entry = "endpoint" /\ pc = "validate") =>
        Square(distance_matrix) /\ Square(duration_matrix)

ClientError == 400..499
ServerError == 500..599

\* C17: the optimize endpoint answers validation and infeasibility errors
\* with a 4xx status and provider failures and internal faults with a 5xx
\* status.
C17_ErrorMapping ==
    (entry = "endpoint" /\ pc = "done" /\ error # <<>> /\ error[1].kind # "Abort") =>
        IF error[1].kind = "RequestValidationError" \/ error = NoSolutionError
        THEN ExceptionStatus(error[1]) \in ClientError
        ELSE ExceptionStatus(error[1]) \in ServerError

\* C18: a driver whose driver_id differs from a route's driver_id gets no data
\* of that route from any route operation, and the stored route is unchanged
\* by the call.
C18_DriverIsolation ==
    [][\A doc \in db_routes :
          (reply' # <<>> /\ reply'[1].driver # doc.driver_id)
              => /\ doc.route_id \notin reply'[1].routes
                 /\ doc \in db_routes']_vars

\* The documented flow DRAFT -> OPTIMIZED -> ASSIGNED -> IN_PROGRESS -> COMPLETED.
StatusFlow == <<DRAFT, OPTIMIZED, ASSIGNED, IN_PROGRESS, COMPLETED>>

FlowRank(route_status) == CHOOSE i \in 1..Len(StatusFlow) : StatusFlow[i] = route_status

InFlow(route_status) == \E i \in 1..Len(StatusFlow) : StatusFlow[i] = route_status

\* C19: under update_route_status, confirm_delivery and complete_route a
\* route's status never moves backward along the documented flow.
C19_StatusNeverBackward ==
    [][\A before \in db_routes : \A after \in db_routes' :
          (/\ after.route_id = before.route_id
           /\ InFlow(before.status)
           /\ InFlow(after.status))
              => FlowRank(after.status) >= FlowRank(before.status)]_vars

\* C20: a route recorded with a stored data_hash keeps a matching hash after
\* any sequence of status and delivery updates: calculate_data_hash of the
\* stored route equals the stored data_hash and verify_route returns true.
C20_HashStaysValid ==
    \A doc \in db_routes :
        ~IsNone(doc.data_hash)
            => /\ calculate_data_hash(doc) = doc.data_hash[1]
               /\ verify_route(doc)

\* A recorded route that was confirmed, completed on the chain, moved to
\* another status afterwards, and is then verified through the endpoint.
C20_Witness ==
    /\ reply # <<>>
    /\ reply[1].handler = "verify_route_blockchain"
    /\ reply[1].verified = Opt(TRUE)
    /\ \E doc \in db_routes :
          /\ ~IsNone(doc.data_hash)
          /\ doc.status = ASSIGNED
          /\ ~IsNone(doc.completed_at)
          /\ ~IsNone(doc.blockchain_completion_tx)
          /\ \A i \in 1..Len(doc.delivery_points) :
                doc.delivery_points[i].status \in {DELIVERED, FAILED}
          /\ \E i \in 1..Len(doc.delivery_points) :
                doc.delivery_points[i].status = FAILED

\* The stored route a confirmation is addressed to has the named point, and
\* that point is DELIVERED.
OnDeliveredPoint(current_driver, route_id, confirmation) ==
    /\ confirmation.route_id = route_id
    /\ \E stored \in find_one(route_id) :
          /\ stored.driver_id = current_driver
          /\ \E i \in 1..Len(stored.delivery_points) :
                /\ stored.delivery_points[i].point_id = confirmation.point_id
                /\ stored.delivery_points[i].status = DELIVERED

\* C21: confirm_delivery on a point that is already DELIVERED answers 400 and
\* leaves the routes and the deliveries collections as they were; and no
\* confirm_delivery call changes a DELIVERED point of a stored route.
C21_DeliveredStaysDelivered ==
    [][(reply' # <<>> /\ reply'[1].handler = "confirm_delivery")
          => /\ \/ /\ reply'[1].status_code = HTTP_400_BAD_REQUEST
                   /\ UNCHANGED <<db_routes, db_deliveries>>
                \/ \A current_driver \in {reply'[1].driver},
                      route_id \in RequestedRouteIds,
                      confirmation \in DeliveryConfirmations :
                        ~(/\ OnDeliveredPoint(current_driver, route_id, confirmation)
                          /\ ConfirmDelivery(current_driver, route_id, confirmation))
             /\ \A before \in db_routes :
                   \A i \in 1..Len(before.delivery_points) :
                      before.delivery_points[i].status = DELIVERED
                         => \E after \in db_routes' :
                               /\ after.route_id = before.route_id
                               /\ after.delivery_points[i] = before.delivery_points[i]]_vars

\* The owner confirmed a point as delivered and confirmed it once more, as
\* failed: the second call was refused and the point is still DELIVERED.
C21_Witness ==
    /\ reply # <<>>
    /\ reply[1].handler = "confirm_delivery"
    /\ reply[1].status_code = HTTP_400_BAD_REQUEST
    /\ reply[1].detail = Opt("This delivery has already been confirmed")
    /\ \E doc \in db_routes :
          /\ doc.delivery_points[1].status = DELIVERED
          /\ [route_id |-> doc.route_id, point_id |-> PointId(1),
              driver_id |-> doc.driver_id, success |-> TRUE] \in db_deliveries

\* r with stop k put right after position pos.
InsertAt(r, k, pos) ==
    [i \in 1..(Len(r) + 1) |->
        IF i <= pos THEN r[i] ELSE IF i = pos + 1 THEN k ELSE r[i - 1]]

\* The (stop, position) pairs whose insertion keeps the partial route feasible.
FeasibleInsertions(r) ==
    {c \in Unrouted(r) \X (1..Len(r)) : RouteFeasible(InsertAt(r, c[1], c[2]))}

IncrementalCost(r, c) == ObjectiveValue(InsertAt(r, c[1], c[2])) - ObjectiveValue(r)

\* Least incremental cost, then lowest stop index, then lowest position.
Preferred(r, c, c2) ==
    \/ IncrementalCost(r, c) < IncrementalCost(r, c2)
    \/ /\ IncrementalCost(r, c) = IncrementalCost(r, c2)
       /\ \/ c[1] < c2[1]
          \/ c[1] = c2[1] /\ c[2] <= c2[2]

CheapestInsertion(r) ==
    CHOOSE c \in FeasibleInsertions(r) : \A c2 \in FeasibleInsertions(r) : Preferred(r, c, c2)

\* C22: every step of the construction phase inserts, among the feasible
\* (unrouted stop, position) pairs, the one of least incremental cost, ties
\* going to the lowest stop index and then the lowest position; a stop is
\* added only while a feasible insertion exists.
C22_CheapestInsertion ==
    [][(pc = "building" /\ pc' = "building" /\ route' # route /\ ValidProblem)
          => /\ FeasibleInsertions(route) # {}
             /\ route' = InsertAt(route, CheapestInsertion(route)[1],
                                  CheapestInsertion(route)[2])]_vars

EarlyFailure ==
    /\ error # <<>>
    /\ \/ error[1].kind = "RequestValidationError"
       \/ error[1].msg \in ProviderFaults \cup {SizeMismatch}

\* C24: a failed optimize request leaves nothing behind: no route document
\* and no blockchain record exist once the request has failed, the search is
\* never started when the provider or the validation failed, and a stored
\* route always comes with the result solve_vrp returned.
C24_NoPartialResult ==
    /\ error # <<>> => (db_routes = {} /\ blockchain_records = {})
    /\ EarlyFailure => ~search_started
    /\ (db_routes # {} \/ blockchain_records # {}) => (result # <<>> /\ error = <<>>)

\* With the blockchain enabled, a request whose problem has no feasible tour
\* was answered 400 after the search had run, and nothing is stored.
C24_Witness ==
    /\ entry = "endpoint"
    /\ blockchain_enabled
    /\ search_started
    /\ error = NoSolutionError
    /\ reply # <<>>
    /\ reply[1].handler = "create_and_optimize_route"
    /\ reply[1].status_code = HTTP_400_BAD_REQUEST
    /\ db_routes = {}

\* The document shows that the route has been IN_PROGRESS or COMPLETED:
\* it has that status now, or the timestamp the status left behind.
HasDeliveryHistory(doc) ==
    \/ doc.status \in {IN_PROGRESS, COMPLETED}
    \/ ~IsNone(doc.actual_start_time)
    \/ ~IsNone(doc.completed_at)

\* C25: a route that has at some point been IN_PROGRESS or COMPLETED is
\* never removed from the routes collection by any route operation.
C25_HistoryPreserved ==
    [][\A doc \in db_routes :
          HasDeliveryHistory(doc)
              => \E after \in db_routes' : after.route_id = doc.route_id]_vars

ShowsConfirmation(c) ==
    \E doc \in db_routes :
        \E i \in 1..Len(doc.delivery_points) :
            /\ doc.delivery_points[i].point_id = confirming[c].confirmation.point_id
            /\ doc.delivery_points[i].status =
                  (IF confirming[c].confirmation.success THEN DELIVERED ELSE FAILED)

\* C27: when two confirm_delivery requests for two different pending points
\* of the same route have both answered 200, in whatever order their steps
\* ran, the stored route shows both points with their confirmed status.
C27_NoLostConfirmation ==
    \A a, b \in Slots :
        (/\ \A c \in {a, b} : /\ confirming[c].pc = "done"
                               /\ confirming[c].response.status_code = 200
         /\ confirming[a].confirmation.point_id # confirming[b].confirmation.point_id)
            => (ShowsConfirmation(a) /\ ShowsConfirmation(b))

\* C28: complete_route succeeds at most once for a route.  RouteSpec has one
\* route, no driver has a credit to begin with and every completion of this
\* route credits at least one delivery, so a completion that succeeds must
\* find the driver's total_deliveries still at zero.
C28_CreditedOnce ==
    [][(/\ reply' # <<>>
        /\ reply'[1].handler = "complete_route"
        /\ reply'[1].status_code = 200)
          => /\ db_drivers[reply'[1].driver] = 0
             /\ \A doc \in db_routes : successful_deliveries(doc.delivery_points) > 0]_vars

\* C29: whatever depot requests of a driver have run, and however their
\* steps interleaved, at most one depot of the driver has is_default set.
C29_OneDefaultDepot ==
    \A drv \in DepotDrivers :
        Cardinality({doc \in db_depots : doc.driver_id = drv /\ doc.is_default}) <= 1

====
